---- MODULE Spec2Model ----
(***************************************************************************)
(* MaterializedGraph (torch_geometric/data/materialized_graph.py): an      *)
(* abstract mapping from EdgeAttr(layout, edge_type) to edge indices.      *)
(* The wrapper methods of the base class are modelled from the source; the *)
(* two abstract hooks, the key casting of CastMixin and the layout         *)
(* conversions are modelled from the specification of a complete store.    *)
(***************************************************************************)
EXTENDS Integers, Sequences, FiniteSets, TLC

\* ------------------------------------------------------------- bounds ----
MaxPuts == 2        \* successful puts in one behaviour
NumEdgeTypes == 1   \* distinct non-null edge types the callers use
MaxEdges == 2       \* edges of the largest edge list a caller inserts
NumThreads == 2     \* concurrent callers of the second specification

\* ---------------------------------------------------- keys (EdgeAttr) ----
NULL == "None"

EdgeLayout == {"COO", "CSC", "CSR", "LIL"}

EdgeTypePool == <<"cites", "writes", "rates", "likes">>

EdgeTypes == {EdgeTypePool[i] : i \in 1..NumEdgeTypes}

OptLayout == EdgeLayout \cup {NULL}

OptEdgeType == EdgeTypes \cup {NULL}

EdgeAttr(layout, edge_type) == [layout |-> layout, edge_type |-> edge_type]

EdgeAttrs == {EdgeAttr(l, e) : l \in OptLayout, e \in OptEdgeType}

\* ------------------------------------------------- python call values ----
\* A python object that can be passed as a key: an EdgeAttr instance, a
\* tuple, a dict or a bare EdgeLayout member.  items holds the positional
\* content, map the keyword content.
NoMap == [n \in {} |-> NULL]

FieldMaps == UNION {[D -> OptLayout \cup OptEdgeType] : D \in SUBSET {"layout", "edge_type"}}

KwMaps == {m \in FieldMaps :
             /\ "layout" \in DOMAIN m => m["layout"] \in OptLayout
             /\ "edge_type" \in DOMAIN m => m["edge_type"] \in OptEdgeType}

PosTuples == {<<>>} \cup {<<l>> : l \in OptLayout}
               \cup {<<l, e>> : l \in OptLayout, e \in OptEdgeType}

Obj(type, items, map) == [type |-> type, items |-> items, map |-> map]

KeyObjs == {Obj("EdgeAttr", <<l, e>>, NoMap) : l \in OptLayout, e \in OptEdgeType}
             \cup {Obj("tuple", p, NoMap) : p \in PosTuples}
             \cup {Obj("dict", <<>>, m) : m \in KwMaps}
             \cup {Obj("EdgeLayout", <<l>>, NoMap) : l \in EdgeLayout}

Scalar(v) == Obj(IF v \in EdgeLayout THEN "EdgeLayout" ELSE "scalar", <<v>>, NoMap)

\* The arguments of one call f(*args, **kwargs).
Call(args, kwargs) == [args |-> args, kwargs |-> kwargs]

KeyCall(key) == Call(<<key>>, NoMap)

Calls == {KeyCall(k) : k \in KeyObjs}
           \cup {Call(<<>>, m) : m \in KwMaps}
           \cup {Call(<<Scalar(l)>>, m) : l \in OptLayout,
                      m \in {k \in KwMaps : DOMAIN k = {"edge_type"}}}
           \cup {Call(<<Scalar(l), Scalar(e)>>, NoMap) : l \in OptLayout, e \in OptEdgeType}

\* cls(*args, **kwargs) of the dataclass: positional fields in declaration
\* order (layout, edge_type), then keywords, unspecified fields None.
Construct(pos, kw) ==
    EdgeAttr(IF Len(pos) >= 1 THEN pos[1]
             ELSE IF "layout" \in DOMAIN kw THEN kw["layout"] ELSE NULL,
             IF Len(pos) >= 2 THEN pos[2]
             ELSE IF "edge_type" \in DOMAIN kw THEN kw["edge_type"] ELSE NULL)

PositionalValues(args) == [i \in 1..Len(args) |-> args[i].items[1]]

\* CastMixin.cast: a single EdgeAttr is returned as it is, a single tuple
\* or dict is unpacked, anything else goes to the constructor.
cast(c) ==
    IF Len(c.args) = 1 /\ DOMAIN c.kwargs = {}
    THEN LET elem == c.args[1] IN
         CASE elem.type = "EdgeAttr" -> EdgeAttr(elem.items[1], elem.items[2])
           [] elem.type = "tuple" -> Construct(elem.items, NoMap)
           [] elem.type = "dict" -> Construct(<<>>, elem.map)
           [] OTHER -> Construct(PositionalValues(c.args), c.kwargs)
    ELSE Construct(PositionalValues(c.args), c.kwargs)

\* The EdgeAttr instance cast returns, as a python object again.
AsObj(attr) == Obj("EdgeAttr", <<attr.layout, attr.edge_type>>, NoMap)

\* ------------------------------------------------------ edge tensors ----
NumNodes == MaxEdges + 1

\* The edge list with n edges  (n-1, n), ..., (1, 2), (0, 1)  in COO form
\* <<rows, cols>>, rows in descending order.
Graph(n) == <<[j \in 1..n |-> n - j], [j \in 1..n |-> n - j + 1]>>

\* The callers insert the empty edge list and the largest one.
Graphs == {Graph(0), Graph(MaxEdges)}

RECURSIVE Flatten(_)
Flatten(ss) == IF ss = <<>> THEN <<>> ELSE Head(ss) \o Flatten(Tail(ss))

\* The entries of minor whose major index is n, in their order.
Bucket(major, minor, n) ==
    LET pairs == [j \in 1..Len(major) |-> <<major[j], minor[j]>>]
        IsN(p) == p[1] = n
        sel == SelectSeq(pairs, IsN)
    IN [j \in 1..Len(sel) |-> sel[j][2]]

\* Compressed form <<indptr, indices>> of the entries grouped by major.
Compress(major, minor) ==
    <<[i \in 1..(NumNodes + 1) |->
          Cardinality({j \in 1..Len(major) : major[j] < i - 1})],
      Flatten([i \in 1..NumNodes |-> Bucket(major, minor, i - 1)])>>

\* The major index of every entry of a compressed form.
Expand(indptr, n) ==
    [p \in 1..n |-> (CHOOSE i \in 1..(Len(indptr) - 1) :
                        indptr[i] < p /\ p <= indptr[i + 1]) - 1]

\* The edge index a caller builds in the layout of its key.
FromCOO(coo, layout) ==
    CASE layout = "CSR" -> Compress(coo[1], coo[2])
      [] layout = "CSC" -> Compress(coo[2], coo[1])
      [] layout = "LIL" -> [i \in 1..NumNodes |-> Bucket(coo[1], coo[2], i - 1)]
      [] OTHER -> coo

\* Conversion of a stored edge index to COO.
ToCOO(t, layout) ==
    CASE layout = "CSR" -> <<Expand(t[1], Len(t[2])), t[2]>>
      [] layout = "CSC" -> <<t[2], Expand(t[1], Len(t[2]))>>
      [] layout = "LIL" ->
           <<Flatten([i \in 1..Len(t) |-> [j \in 1..Len(t[i]) |-> i - 1]]),
             Flatten(t)>>
      [] OTHER -> t

Nodes == 0..(NumNodes - 1)

\* How often each edge occurs in a COO edge index.
EdgeCount(coo) ==
    [e \in Nodes \X Nodes |->
        Cardinality({j \in 1..Len(coo[1]) : <<coo[1][j], coo[2][j]>> = e})]

\* ------------------------------------------------------------ results ----
Ret(kind, tensor, flag) == [kind |-> kind, tensor |-> tensor, flag |-> flag]

None == Ret("None", <<>>, FALSE)

RetTensor(t) == Ret("tensor", t, FALSE)

RetBool(b) == Ret("bool", <<>>, b)

Raise(error) == Ret(error, <<>>, FALSE)

Errors == {"AttributeError", "NotImplementedError", "KeyError"}

Raised(r) == r.kind \in Errors

\* What a method did: the store it leaves, what it returned or raised, the
\* keys it handed to the hook _put_edge_index, and whether it invoked the
\* external sampler.
Outcome(st, r, hooked, sampled) ==
    [store |-> st, ret |-> r, hooked |-> hooked, sampled |-> sampled]

\* ------------------------------------------------ the abstract hooks ----
\* A backend that keeps one edge index per EdgeAttr.
_put_edge_index(st, edge_index, edge_attr) ==
    [k \in DOMAIN st \cup {edge_attr} |->
        IF k = edge_attr THEN edge_index ELSE st[k]]

_get_edge_index(st, edge_attr) ==
    IF edge_attr \in DOMAIN st
    THEN RetTensor(ToCOO(st[edge_attr], edge_attr.layout))
    ELSE None

\* ------------------------------------------------- MaterializedGraph ----
LayoutUnsetOnlyWithoutType(edge_attr) ==
    edge_attr.layout = NULL /\ edge_attr.edge_type = NULL

\* `not edge_attr.layout`
LayoutUnset(edge_attr) == edge_attr.layout = NULL

HookAttrDropsType(c) == EdgeAttr(cast(c).layout, NULL)

\* The key of the second cast, the one handed to the hook.
HookAttr(c) == cast(c)

put_edge_index(st, edge_index, c) ==
    LET edge_attr == cast(c) IN
    IF LayoutUnset(edge_attr)
    THEN Outcome(st, Raise("AttributeError"), <<>>, FALSE)
    ELSE Outcome(_put_edge_index(st, edge_index, HookAttr(c)), RetBool(TRUE),
                 <<HookAttr(c)>>, FALSE)

GetChecksLayout(st, c) ==
    IF LayoutUnset(cast(c))
    THEN Outcome(st, Raise("AttributeError"), <<>>, FALSE)
    ELSE Outcome(st, _get_edge_index(st, cast(c)), <<>>, FALSE)

get_edge_index(st, c) ==
    Outcome(st, _get_edge_index(st, cast(c)), <<>>, FALSE)

SampleDelegates(st, input_nodes) == Outcome(st, None, <<>>, TRUE)

sample(st, input_nodes) == Outcome(st, None, <<>>, FALSE)

SetItemSwallowsError(st, key, value) ==
    LET k == cast(KeyCall(key))
        r == put_edge_index(st, value, KeyCall(AsObj(k)))
    IN Outcome(r.store, None, r.hooked, r.sampled)

__setitem__(st, key, value) ==
    LET k == cast(KeyCall(key))
        r == put_edge_index(st, value, KeyCall(AsObj(k)))
    IN Outcome(r.store, IF Raised(r.ret) THEN r.ret ELSE None, r.hooked, r.sampled)

__getitem__(st, key) ==
    LET k == cast(KeyCall(key))
    IN get_edge_index(st, KeyCall(AsObj(k)))

DelItemRemoves(st, key) ==
    Outcome([k \in DOMAIN st \ {cast(KeyCall(key))} |-> st[k]], None, <<>>, FALSE)

__delitem__(st, key) == Outcome(st, Raise("NotImplementedError"), <<>>, FALSE)

__iter__(st) == Outcome(st, Raise("NotImplementedError"), <<>>, FALSE)

__len__(st) == Outcome(st, Raise("NotImplementedError"), <<>>, FALSE)

\* Mapping.__contains__, inherited through MutableMapping: self[key] is
\* tried and only a KeyError makes the answer False.
__contains__(st, key) ==
    LET r == __getitem__(st, key) IN
    IF r.ret.kind = "KeyError" THEN Outcome(st, RetBool(FALSE), <<>>, r.sampled)
    ELSE IF Raised(r.ret) THEN r
    ELSE Outcome(st, RetBool(TRUE), <<>>, r.sampled)

\* ---------------------------------------------------------- the state ----
VARIABLES
    store,      \* the backend's mapping EdgeAttr -> edge index, as inserted
    op,         \* the call that has just returned, "idle" once it is consumed
    call,       \* its arguments
    value,      \* the edge index it was given (<<>> when it takes none)
    ret,        \* what it returned or raised
    hooked,     \* the keys it handed to _put_edge_index
    sampled,    \* whether it invoked the external sampler
    nputs,      \* puts that passed the layout check so far
    inserted,   \* history: EdgeAttr -> the COO edge list of the latest put
    pc,         \* per caller: "idle", or "checked" between check and hook
    pending     \* per caller: the put it is in the middle of

vars == <<store, op, call, value, ret, hooked, sampled, nputs, inserted, pc, pending>>

Threads == 1..NumThreads

Empty == [k \in {} |-> <<>>]

NoCall == Call(<<>>, NoMap)

NoPending == [call |-> NoCall, value |-> <<>>, graph |-> <<>>, checked |-> EdgeAttr(NULL, NULL)]

Init ==
    /\ store = Empty
    /\ op = "idle"
    /\ call = NoCall
    /\ value = <<>>
    /\ ret = None
    /\ hooked = <<>>
    /\ sampled = FALSE
    /\ nputs = 0
    /\ inserted = Empty
    /\ pc = [t \in Threads |-> "idle"]
    /\ pending = [t \in Threads |-> NoPending]

\* No call is waiting for its caller to take the result.
Idle == op = "idle"

\* One whole method call: its outcome becomes the state.
Done(name, c, v, out) ==
    /\ op' = name
    /\ call' = c
    /\ value' = v
    /\ store' = out.store
    /\ ret' = out.ret
    /\ hooked' = out.hooked
    /\ sampled' = out.sampled

Remember(attr, g) ==
    [k \in DOMAIN inserted \cup {attr} |-> IF k = attr THEN g ELSE inserted[k]]

\* The inputs of sample: a tensor of node ids, or a dict of them.
InputNodes == {Obj(type, [i \in 1..n |-> i - 1], NoMap) :
                  type \in {"LongTensor", "Dict"}, n \in 0..MaxEdges}

\* store.put_edge_index(edge_index, *args, **kwargs)
PutEdgeIndex ==
    /\ Idle
    /\ \E c \in Calls, g \in Graphs :
        LET v == FromCOO(g, cast(c).layout)
            out == put_edge_index(store, v, c)
        IN /\ Raised(out.ret) \/ nputs < MaxPuts
           /\ Done("put_edge_index", c, v, out)
           /\ nputs' = IF Raised(out.ret) THEN nputs ELSE nputs + 1
           /\ inserted' = IF Raised(out.ret) THEN inserted ELSE Remember(cast(c), g)
           /\ UNCHANGED <<pc, pending>>

\* store[key] = value
SetItem ==
    /\ Idle
    /\ \E key \in KeyObjs, g \in Graphs :
        LET v == FromCOO(g, cast(KeyCall(key)).layout)
            out == __setitem__(store, key, v)
        IN /\ Raised(out.ret) \/ nputs < MaxPuts
           /\ Done("__setitem__", KeyCall(key), v, out)
           /\ nputs' = IF Raised(out.ret) THEN nputs ELSE nputs + 1
           /\ inserted' = IF Raised(out.ret) THEN inserted
                          ELSE Remember(cast(KeyCall(key)), g)
           /\ UNCHANGED <<pc, pending>>

\* store.get_edge_index(*args, **kwargs)
GetEdgeIndex ==
    /\ Idle
    /\ \E c \in Calls :
        /\ Done("get_edge_index", c, <<>>, get_edge_index(store, c))
        /\ UNCHANGED <<nputs, inserted, pc, pending>>

\* store[key]
GetItem ==
    /\ Idle
    /\ \E key \in KeyObjs :
        /\ Done("__getitem__", KeyCall(key), <<>>, __getitem__(store, key))
        /\ UNCHANGED <<nputs, inserted, pc, pending>>

\* key in store
Contains ==
    /\ Idle
    /\ \E key \in KeyObjs :
        /\ Done("__contains__", KeyCall(key), <<>>, __contains__(store, key))
        /\ UNCHANGED <<nputs, inserted, pc, pending>>

\* store.sample(input_nodes)
Sample ==
    /\ Idle
    /\ \E input_nodes \in InputNodes :
        /\ Done("sample", KeyCall(input_nodes), <<>>, sample(store, input_nodes))
        /\ UNCHANGED <<nputs, inserted, pc, pending>>

\* del store[key]
DelItem ==
    /\ Idle
    /\ \E key \in KeyObjs :
        /\ Done("__delitem__", KeyCall(key), <<>>, __delitem__(store, key))
        /\ UNCHANGED <<nputs, inserted, pc, pending>>

\* iter(store)
Iter ==
    /\ Idle
    /\ Done("__iter__", NoCall, <<>>, __iter__(store))
    /\ UNCHANGED <<nputs, inserted, pc, pending>>

\* len(store)
Length ==
    /\ Idle
    /\ Done("__len__", NoCall, <<>>, __len__(store))
    /\ UNCHANGED <<nputs, inserted, pc, pending>>

\* The caller has taken the result of its call; the store is as the call
\* left it.
Return ==
    /\ op # "idle"
    /\ op' = "idle"
    /\ call' = NoCall
    /\ value' = <<>>
    /\ ret' = None
    /\ hooked' = <<>>
    /\ sampled' = FALSE
    /\ UNCHANGED <<store, nputs, inserted, pc, pending>>

Next ==
    \/ PutEdgeIndex
    \/ SetItem
    \/ GetEdgeIndex
    \/ GetItem
    \/ Contains
    \/ Sample
    \/ DelItem
    \/ Iter
    \/ Length
    \/ Return

Spec == Init /\ [][Next]_vars

\* ------------------------------------------------- concurrent callers ----
\* Every caller passes EdgeAttr instances and inserts an edge list of its own.
ConcCalls == {KeyCall(AsObj(a)) : a \in EdgeAttrs}

ThreadGraph(t) == Graph(((t - 1) % MaxEdges) + 1)

\* put_edge_index up to the layout check: the first cast and the test.
BeginPut(t) ==
    /\ Idle
    /\ pc[t] = "idle"
    /\ \E c \in ConcCalls :
        LET g == ThreadGraph(t)
            edge_attr == cast(c)
            v == FromCOO(g, edge_attr.layout)
        IN IF LayoutUnset(edge_attr)
           THEN /\ Done("put_edge_index", c, v,
                        Outcome(store, Raise("AttributeError"), <<>>, FALSE))
                /\ UNCHANGED <<nputs, inserted, pc, pending>>
           ELSE /\ nputs < MaxPuts
                /\ nputs' = nputs + 1
                /\ pc' = [pc EXCEPT ![t] = "checked"]
                /\ pending' = [pending EXCEPT ![t] =
                       [call |-> c, value |-> v, graph |-> g, checked |-> edge_attr]]
                /\ UNCHANGED <<store, op, call, value, ret, hooked, sampled, inserted>>

\* put_edge_index from the second cast on: the hook, which is the
\* serialization point of the backend.
FinishPut(t) ==
    /\ Idle
    /\ pc[t] = "checked"
    /\ LET p == pending[t]
           a == HookAttr(p.call)
       IN /\ Done("put_edge_index", p.call, p.value,
                  Outcome(_put_edge_index(store, p.value, a), RetBool(TRUE), <<a>>, FALSE))
          /\ inserted' = Remember(p.checked, p.graph)
    /\ pc' = [pc EXCEPT ![t] = "idle"]
    /\ pending' = [pending EXCEPT ![t] = NoPending]
    /\ UNCHANGED nputs

\* get_edge_index by a caller that is not inside a put.
ConcGet(t) ==
    /\ Idle
    /\ pc[t] = "idle"
    /\ \E c \in ConcCalls :
        Done("get_edge_index", c, <<>>, get_edge_index(store, c))
    /\ UNCHANGED <<nputs, inserted, pc, pending>>

NextConc ==
    \/ \E t \in Threads : BeginPut(t)
    \/ \E t \in Threads : FinishPut(t)
    \/ \E t \in Threads : ConcGet(t)
    \/ Return

SpecConc == Init /\ [][NextConc]_vars

\* ------------------------------------------------------------- claims ----
IsPut(o) == o \in {"put_edge_index", "__setitem__"}

IsGet(o) == o \in {"get_edge_index", "__getitem__"}

IsCOO(t) == Len(t) = 2 /\ Len(t[1]) = Len(t[2])

\* C1: a put (put_edge_index or store[key] = value) whose key has no layout
\* raises AttributeError whatever the edge_type, hands nothing to the hook
\* _put_edge_index and leaves the stored mapping as it was.
PutWithoutLayoutFails ==
    [][(IsPut(op') /\ cast(call').layout = NULL) =>
          /\ ret' = Raise("AttributeError")
          /\ hooked' = <<>>
          /\ store' = store]_vars

PutWithoutLayoutFailed ==
    /\ op = "put_edge_index"
    /\ cast(call).layout = NULL
    /\ cast(call).edge_type # NULL
    /\ ret = Raise("AttributeError")
    /\ store # Empty

\* C2: a get under a key with layout set returns, in COO form, the edges of
\* the most recent successful put under that same (layout, edge_type) key.
GetReturnsLatestPut ==
    (IsGet(op) /\ cast(call).layout # NULL /\ cast(call) \in DOMAIN inserted) =>
        /\ ret.kind = "tensor"
        /\ IsCOO(ret.tensor)
        /\ EdgeCount(ret.tensor) = EdgeCount(inserted[cast(call)])

GetAfterOverwrite ==
    /\ op = "get_edge_index"
    /\ cast(call).layout = "CSR"
    /\ cast(call) \in DOMAIN inserted
    /\ nputs = 2
    /\ Cardinality(DOMAIN store) = 1
    /\ ret.kind = "tensor"
    /\ Len(ret.tensor[1]) = MaxEdges
    /\ ret.tensor # inserted[cast(call)]

\* C3: a get (get_edge_index or store[key]) under a key that was never
\* inserted returns None, raises nothing and leaves the store unchanged.
GetMissReturnsNone ==
    [][(IsGet(op') /\ cast(call') \notin DOMAIN inserted) =>
          (ret' = None /\ store' = store)]_vars

GetMissed ==
    /\ op = "__getitem__"
    /\ cast(call) \notin DOMAIN inserted
    /\ \E k \in DOMAIN store : k.edge_type = cast(call).edge_type
    /\ ret = None

\* C4: every stored entry has a layout in its key, and every key handed to
\* the hook _put_edge_index has its layout set.
StoredLayoutSet ==
    /\ \A k \in DOMAIN store : k.layout # NULL
    /\ \A i \in 1..Len(hooked) : hooked[i].layout # NULL

HookGotKey ==
    /\ op = "__setitem__"
    /\ Len(hooked) = 1
    /\ Cardinality(DOMAIN store) = 2

\* C5: an entry stays present with the same value across every operation
\* other than a successful put under its own (layout, edge_type) key.
EntriesPersist ==
    [][\A k \in DOMAIN store :
          \/ k \in DOMAIN store' /\ store'[k] = store[k]
          \/ IsPut(op') /\ ~Raised(ret') /\ cast(call') = k]_vars

PutBesideEntry ==
    /\ op = "put_edge_index"
    /\ ~Raised(ret)
    /\ \E k \in DOMAIN store :
          /\ k # cast(call)
          /\ k.edge_type = cast(call).edge_type
          /\ store[k] # store[cast(call)]

\* C6: del store[key], iter(store) and len(store) raise NotImplementedError
\* in every state and for every key, and leave the store unchanged.
Unimplemented ==
    [][op' \in {"__delitem__", "__iter__", "__len__"} =>
          (ret' = Raise("NotImplementedError") /\ store' = store)]_vars

DeletedPresentKey ==
    /\ op = "__delitem__"
    /\ cast(call) \in DOMAIN store
    /\ ret = Raise("NotImplementedError")

\* C7: `key in store` is true exactly when an entry has been put under the
\* key, and false for a key never inserted.
MembershipTest ==
    op = "__contains__" => ret = RetBool(cast(call) \in DOMAIN inserted)

\* C8: sample with an empty input-node sequence returns the empty result
\* (None), does not invoke the external sampler and changes no entry.
SampleEmptyInput ==
    [][(op' = "sample" /\ call'.args[1].items = <<>>) =>
          (ret' = None /\ ~sampled' /\ store' = store)]_vars

SampledEmptyInput ==
    /\ op = "sample"
    /\ call.args[1].items = <<>>
    /\ store # Empty
    /\ ret = None

OperatorsAreNamedOperations ==
    [][/\ op' = "__setitem__" =>
            LET o == put_edge_index(store, value', call')
            IN /\ store' = o.store
               /\ hooked' = o.hooked
               /\ Raised(ret') = Raised(o.ret)
               /\ Raised(o.ret) => ret' = o.ret
       /\ op' = "__getitem__" =>
            LET o == get_edge_index(store, call')
            IN store' = o.store /\ ret' = o.ret
       /\ op' \in {"__setitem__", "__getitem__"} =>
            cast(KeyCall(AsObj(cast(call')))) = cast(call')]_vars

SetItemWithTuple ==
    /\ op = "__setitem__"
    /\ call.args[1].type = "tuple"
    /\ Len(call.args[1].items) = 2
    /\ Len(hooked) = 1
    /\ store # Empty

====
